---- MODULE Spec2Model ----
(***************************************************************************)
(* joblog: a Mongo-backed cache of scikit-learn training jobs.             *)
(*                                                                         *)
(* The model follows src/joblog/joblog.py.  A Job is a handle holding the  *)
(* query document `_entry`; the collection is an ordered list of documents *)
(* and GridFS is a map from file ids to pickled payloads.  Every method of *)
(* Job and JobFactory is one action that performs the whole method body.   *)
(*                                                                         *)
(* Backend behaviour the code relies on, modelled as pymongo/gridfs do it: *)
(*   - a query document matches every stored document that carries the    *)
(*     queried keys with equal values (keys the query lacks are free);     *)
(*   - find_one and a single-document update pick the first match in       *)
(*     natural order, taken here to be insertion order;                    *)
(*   - insert adds the generated _id to the dict it is handed;             *)
(*   - GridFS.delete of an unknown id is silent, GridFS.get raises NoFile. *)
(***************************************************************************)
EXTENDS Integers, Sequences, FiniteSets, TLC

(* ---------------------------------------------------------------- bounds *)
\* handles constructed in one run
MaxJobs == 2
\* handles constructed in a run that only constructs Jobs
MaxBatch == 3
\* points of a parameter grid handed to job_grid
MaxGrid == 2
\* GridFS files ever written in one run (ids are never reused)
MaxFiles == 2
\* ObjectIds ever generated for documents in one run
MaxOids == 3

(* ------------------------------------------------------- python values  *)
\* a dict key that is not present / a parameter left at its default None
Absent == "<absent>"
PyNone == "<None>"
\* ObjectIds are 1, 2, ...; NoId stands for "no such key"
NoId == 0
\* metadata value for a key the document does not carry
Missing == -1

NoneV == [kind |-> "None"]
IntV(n) == [kind |-> "int", v |-> n]
Error(type, msg) == [kind |-> "error", type |-> type, msg |-> msg]
IsError(v) == v.kind = "error"

(* ------------------------------------------------------------ inputs    *)
LogisticRegression == "LogisticRegression"
LinearRegression == "LinearRegression"
Clfs == {LogisticRegression, LinearRegression}

\* numpy arrays, each standing for the bytes of its buffer
X0 == "x0"
X1 == "x1"
Y0 == "y0"
Y1 == "y1"
Xs == {X0, X1}
Ys == {Y0, Y1}
P0 == "{C=2,penalty=l2}"
P1 == "{}"
Params == {P0, P1}
Labels == {PyNone, "a", "b"}

Args(clf, X, Y, params, label) ==
    [clf |-> clf, X |-> X, Y |-> Y, params |-> params, label |-> label]

\* the number of positional inputs in which two argument records differ
Differ(a, b) ==
    (IF a.clf # b.clf THEN 1 ELSE 0) + (IF a.X # b.X THEN 1 ELSE 0)
    + (IF a.Y # b.Y THEN 1 ELSE 0) + (IF a.params # b.params THEN 1 ELSE 0)

Base == Args(LogisticRegression, X0, Y0, P0, PyNone)

\* the jobs a run may construct: the base job under every label, and each
\* single-input change of it
JobArgs ==
    {a \in [clf : Clfs, X : Xs, Y : Ys, params : Params, label : Labels] :
        \/ Differ(a, Base) = 0
        \/ Differ(a, Base) = 1 /\ a.label = PyNone}

\* the jobs constructed in runs that also store results: the base job with
\* and without a label, and a job on other data
RunArgs ==
    {Base, Args(LogisticRegression, X0, Y0, P0, "a"),
     Args(LogisticRegression, X1, Y0, P0, PyNone)}

\* store keywords handed to run()
Stores == {"classifier", "Score", "prediction", PyNone, "full-result"}
\* metadata keys and values handed to __setitem__ / __getitem__
Keys == {"test_extra"}
Vals == {123, 456}
\* values assigned to the result property directly
Assigned == {NoneV, IntV(5)}

\* IterGrid(param_grid): the grid's points in iteration order
Grids == {g \in UNION {[1..n -> Params] : n \in 1..MaxGrid} : TRUE}

\* the callers whose calls may overlap
Threads == {"t1", "t2"}

(* ------------------------------------------------------------ state     *)
VARIABLES
    collection,   \* the Mongo collection: documents in natural order
    fs,           \* GridFS: file id -> stored bytes
    nextOid,      \* next ObjectId a document insert generates
    nextFid,      \* next ObjectId GridFS.put generates
    jobs,         \* the Job handles constructed so far
    call,         \* the last call made: what it was and what it returned
    threads       \* calls in progress whose store operations interleave

vars == <<collection, fs, nextOid, nextFid, jobs, call, threads>>

(* ------------------------------------------------- hashing and pickling *)
\* md5(X).hexdigest(): the digest of the array's buffer; distinct buffers
\* are taken to have distinct digests
md5(A) == <<"md5", A>>

\* cPickle dumps / load
dumps(v) == <<"pickle", v>>
load(b) == b[2]

(* ------------------------------------------------------- the collection *)
\* a query document matches a stored document that has every queried key
\* with an equal value
Matches(d, q) ==
    /\ q.id = NoId \/ d.id = q.id
    /\ d.x_hash = q.x_hash
    /\ d.y_hash = q.y_hash
    /\ d.clf = q.clf
    /\ d.params = q.params
    /\ q.label = Absent \/ d.label = q.label

\* index of the document find_one returns, 0 for None
find_one(c, q) ==
    LET hits == {i \in 1..Len(c) : Matches(c[i], q)}
    IN  IF hits = {} THEN 0 ELSE CHOOSE i \in hits : \A j \in hits : i <= j

\* the document as stored when the dict q is inserted under ObjectId oid
Document(q, oid) ==
    [id |-> oid, x_hash |-> q.x_hash, y_hash |-> q.y_hash, clf |-> q.clf,
     params |-> q.params, label |-> q.label, result |-> NoId,
     extra |-> [k \in Keys |-> Missing]]

\* the store a method works on: c the collection, f GridFS, n the next
\* file id, o the next document id
Store(c, f, n, o) == [c |-> c, f |-> f, n |-> n, o |-> o]

\* an upsert that matches nothing inserts the query's fields; the server
\* generates an _id unless the query carries one
Upserted(st, q) ==
    IF find_one(st.c, q) # 0 THEN st
    ELSE IF q.id # NoId
         THEN [st EXCEPT !.c = Append(st.c, Document(q, q.id))]
         ELSE [st EXCEPT !.c = Append(st.c, Document(q, st.o)), !.o = st.o + 1]

\* collection.update(q, {"$set": {"result": rid}}, upsert=True)
update_result(st, q, rid) ==
    LET u == Upserted(st, q)
        i == find_one(u.c, q)
    IN  [u EXCEPT !.c[i].result = rid]

\* collection.update(q, {"$set": {key: value}}, upsert=True)
update_extra(st, q, key, value) ==
    LET u == Upserted(st, q)
        i == find_one(u.c, q)
    IN  [u EXCEPT !.c[i].extra[key] = value]

\* GridFS.delete(id): removes the file when there is one
fs_delete(f, id) == [i \in DOMAIN f \ {id} |-> f[i]]

\* GridFS.put(bytes) under the next file id
fs_put(f, id, bytes) == [i \in DOMAIN f \cup {id} |-> IF i = id THEN bytes ELSE f[i]]

(* -------------------------------------------------------------- Job     *)
\* the query dict self._entry built by __init__ (before any insert)
Entry(a) ==
    [id |-> NoId, x_hash |-> md5(a.X), y_hash |-> md5(a.Y),
     clf |-> dumps(a.clf), params |-> a.params,
     label |-> IF a.label # PyNone THEN a.label ELSE Absent]

\* the Job object __init__ leaves behind for arguments a against store st
Job(st, a) ==
    LET q == Entry(a)
        dup == find_one(st.c, q) # 0
    IN  [clf |-> a.clf, X |-> a.X, Y |-> a.Y, params |-> a.params,
         label |-> a.label, duplicated |-> dup,
         entry |-> IF dup THEN q ELSE [q EXCEPT !.id = st.o]]

\* the store after __init__: the entry is inserted unless it was found
Registered(st, a) ==
    LET q == Entry(a)
    IN  IF find_one(st.c, q) # 0 THEN st
        ELSE [st EXCEPT !.c = Append(st.c, Document(q, st.o)), !.o = st.o + 1]

\* the result property: the unpickled file the matched entry points at
result_get(st, job) ==
    LET i == find_one(st.c, job.entry)
    IN  IF i # 0 /\ st.c[i].result # NoId
        THEN IF st.c[i].result \in DOMAIN st.f
             THEN load(st.f[st.c[i].result])
             ELSE Error("NoFile", "")
        ELSE NoneV

\* del self.result that forgets to delete the old file
result_del_keep(st, job) ==
    IF find_one(st.c, job.entry) = 0
    THEN [st |-> st, err |-> Error("AttributeError", "get")]
    ELSE [st |-> st, err |-> NoneV]

\* del self.result: [st, err]; find_one returning None makes e.get raise
result_del(st, job) ==
    LET i == find_one(st.c, job.entry)
    IN  IF i = 0
        THEN [st |-> st, err |-> Error("AttributeError", "get")]
        ELSE [st |-> IF st.c[i].result # NoId
                     THEN [st EXCEPT !.f = fs_delete(st.f, st.c[i].result)]
                     ELSE st,
              err |-> NoneV]

\* self.result = value: [st, err]
result_set(st, job, value) ==
    LET d == result_del(st, job)
        rid == d.st.n
        put == [d.st EXCEPT !.f = fs_put(d.st.f, rid, dumps(value)), !.n = rid + 1]
    IN  IF IsError(d.err) THEN d
        ELSE [st |-> update_result(put, job.entry, rid), err |-> NoneV]

\* str.lower() on the store keywords in use
lower(s) ==
    CASE s = "Score" -> "score"
      [] OTHER -> s

\* the estimator after clf(); set_params(**params); fit(X, Y)
fit(job) ==
    [kind |-> "clf", cls |-> job.clf, params |-> job.params,
     X |-> job.X, Y |-> job.Y]
score(m, X, Y) == [kind |-> "score", of |-> m, X |-> X, Y |-> Y]
predict(m, X) == [kind |-> "prediction", of |-> m, X |-> X]

\* what run() stores under each keyword
Stored(m, job, store) ==
    CASE store = "classifier" -> m
      [] store = "score" -> score(m, job.X, job.Y)
      [] store = "prediction" -> predict(m, job.X)

\* the store keyword as run() normalises it: None is 'none', case is folded
Keyword(store) == IF store = PyNone THEN "none" ELSE lower(store)

\* the keywords run() accepts
Accepted == {"classifier", "none", "score", "prediction"}

\* run() that never looks for a stored result
run_nocache(st, job, store0) ==
    LET store == Keyword(store0)
        m == fit(job)
        s == result_set(st, job, Stored(m, job, store))
    IN  IF store \notin Accepted
        THEN [st |-> st, ret |-> Error("TypeError", "store"), nfit |-> 0]
        ELSE IF store = "none"
        THEN [st |-> st, ret |-> m, nfit |-> 1]
        ELSE IF IsError(s.err)
        THEN [st |-> s.st, ret |-> s.err, nfit |-> 1]
        ELSE [st |-> s.st, ret |-> m, nfit |-> 1]

\* run() that stores the classifier under the keyword 'none' as well
run_none_stores(st, job, store0) ==
    LET store == Keyword(store0)
        r == result_get(st, job)
        m == fit(job)
        s == result_set(st, job, IF store = "none" THEN m ELSE Stored(m, job, store))
    IN  IF store \notin Accepted
        THEN [st |-> st, ret |-> Error("TypeError", "store"), nfit |-> 0]
        ELSE IF r # NoneV
        THEN [st |-> st, ret |-> r, nfit |-> 0]
        ELSE IF IsError(s.err)
        THEN [st |-> s.st, ret |-> s.err, nfit |-> 1]
        ELSE [st |-> s.st, ret |-> m, nfit |-> 1]

\* run() that looks for a stored result before it checks the keyword
run_cache_first(st, job, store0) ==
    LET store == Keyword(store0)
        r == result_get(st, job)
        m == fit(job)
        s == result_set(st, job, Stored(m, job, store))
    IN  IF r # NoneV
        THEN [st |-> st, ret |-> r, nfit |-> 0]
        ELSE IF store \notin Accepted
        THEN [st |-> st, ret |-> Error("TypeError", "store"), nfit |-> 0]
        ELSE IF store = "none"
        THEN [st |-> st, ret |-> m, nfit |-> 1]
        ELSE IF IsError(s.err)
        THEN [st |-> s.st, ret |-> s.err, nfit |-> 1]
        ELSE [st |-> s.st, ret |-> m, nfit |-> 1]

\* run(store): [st, ret, nfit]; nfit counts the calls of clf.fit
run(st, job, store0) ==
    LET store == Keyword(store0)
        r == result_get(st, job)
        m == fit(job)
        s == result_set(st, job, Stored(m, job, store))
    IN  IF store \notin Accepted
        THEN [st |-> st, ret |-> Error("TypeError", "store"), nfit |-> 0]
        ELSE IF r # NoneV
        THEN [st |-> st, ret |-> r, nfit |-> 0]
        ELSE IF store = "none"
        THEN [st |-> st, ret |-> m, nfit |-> 1]
        ELSE IF IsError(s.err)
        THEN [st |-> s.st, ret |-> s.err, nfit |-> 1]
        ELSE [st |-> s.st, ret |-> m, nfit |-> 1]

\* rerun(): self.result = None, then run()
rerun(st, job) ==
    LET s == result_set(st, job, NoneV)
    IN  IF IsError(s.err)
        THEN [st |-> s.st, ret |-> s.err, nfit |-> 0]
        ELSE run(s.st, job, "classifier")

\* job[key]: entry[key] on the matched document
getitem(st, job, key) ==
    LET i == find_one(st.c, job.entry)
    IN  IF i = 0 THEN Error("TypeError", "NoneType")
        ELSE IF st.c[i].extra[key] = Missing
        THEN Error("KeyError", key)
        ELSE IntV(st.c[i].extra[key])

\* job[key] = value
setitem(st, job, key, value) == update_extra(st, job.entry, key, value)

\* list(job_grid(clf, X, Y, param_grid, filter_duplicates)) over the points
\* grid: [st, jobs], jobs being the Jobs the generator yields
RECURSIVE job_grid(_, _, _, _, _, _)
job_grid(st, clf, X, Y, grid, filter_duplicates) ==
    IF grid = <<>> THEN [st |-> st, jobs |-> <<>>]
    ELSE LET a == Args(clf, X, Y, Head(grid), PyNone)
             j == Job(st, a)
             rest == job_grid(Registered(st, a), clf, X, Y, Tail(grid),
                              filter_duplicates)
         IN  [st |-> rest.st,
              jobs |-> IF filter_duplicates /\ j.duplicated
                       THEN rest.jobs ELSE <<j>> \o rest.jobs]

(* ------------------------------------------------------------ actions  *)
Cur == Store(collection, fs, nextFid, nextOid)

\* the store a call leaves behind, within the id bounds
Commit(st) ==
    /\ st.n <= MaxFiles + 1
    /\ st.o <= MaxOids + 1
    /\ collection' = st.c
    /\ fs' = st.f
    /\ nextFid' = st.n
    /\ nextOid' = st.o

Called(op, h, arg, val, ret, nfit) ==
    call' = [op |-> op, job |-> h, arg |-> arg, val |-> val, ret |-> ret,
             nfit |-> nfit]

\* a caller that has not called anything yet
NoJob == [kind |-> "none"]
Idle ==
    [call |-> "none", op |-> "none", pc |-> "idle", job |-> NoJob,
     val |-> NoneV, old |-> NoId, read |-> NoId, rid |-> NoId,
     ret |-> NoneV, nfit |-> 0]

Init ==
    /\ collection = <<>>
    /\ fs = <<>>
    /\ nextOid = 1
    /\ nextFid = 1
    /\ jobs = <<>>
    /\ call = [op |-> "init", job |-> 0, arg |-> "", val |-> Missing,
               ret |-> NoneV, nfit |-> 0]
    /\ threads = [t \in Threads |-> Idle]

\* JobFactory.job(clf, X, Y, params, label) / Job.__init__
NewJob(a) ==
    /\ Commit(Registered(Cur, a))
    /\ jobs' = Append(jobs, Job(Cur, a))
    /\ Called("job", Len(jobs) + 1, "", Missing, NoneV, 0)
    /\ UNCHANGED threads

\* Job.run(store)
Run(h, store) ==
    LET r == run(Cur, jobs[h], store)
    IN  /\ Commit(r.st)
        /\ Called("run", h, store, Missing, r.ret, r.nfit)
        /\ UNCHANGED <<jobs, threads>>

\* Job.rerun()
Rerun(h) ==
    LET r == rerun(Cur, jobs[h])
    IN  /\ Commit(r.st)
        /\ Called("rerun", h, "", Missing, r.ret, r.nfit)
        /\ UNCHANGED <<jobs, threads>>

\* reading Job.result
GetResult(h) ==
    /\ Called("result", h, "", Missing, result_get(Cur, jobs[h]), 0)
    /\ UNCHANGED <<collection, fs, nextOid, nextFid, jobs, threads>>

\* Job.result = value
SetResult(h, value) ==
    LET s == result_set(Cur, jobs[h], value)
    IN  /\ Commit(s.st)
        /\ Called("result=", h, "", Missing, s.err, 0)
        /\ UNCHANGED <<jobs, threads>>

\* del Job.result
DelResult(h) ==
    LET d == result_del(Cur, jobs[h])
    IN  /\ Commit(d.st)
        /\ Called("del result", h, "", Missing, d.err, 0)
        /\ UNCHANGED <<jobs, threads>>

\* Job.__getitem__(key)
GetItem(h, key) ==
    /\ Called("getitem", h, key, Missing, getitem(Cur, jobs[h], key), 0)
    /\ UNCHANGED <<collection, fs, nextOid, nextFid, jobs, threads>>

\* Job.__setitem__(key, value)
SetItem(h, key, value) ==
    /\ Commit(setitem(Cur, jobs[h], key, value))
    /\ Called("setitem", h, key, value, NoneV, 0)
    /\ UNCHANGED <<jobs, threads>>

\* clear_jobs() that drops only the entries without a result
ClearJobs_unrun ==
    /\ collection' = SelectSeq(collection, LAMBDA d : d.result # NoId)
    /\ Called("clear_jobs", 0, "", Missing, NoneV, 0)
    /\ UNCHANGED <<fs, nextOid, nextFid, jobs, threads>>

\* clear_jobs() that empties GridFS along with the collection
ClearJobs_blobs ==
    /\ collection' = <<>>
    /\ fs' = <<>>
    /\ Called("clear_jobs", 0, "", Missing, NoneV, 0)
    /\ UNCHANGED <<nextOid, nextFid, jobs, threads>>

\* JobFactory.clear_jobs(): collection.drop()
ClearJobs ==
    /\ collection' = <<>>
    /\ Called("clear_jobs", 0, "", Missing, NoneV, 0)
    /\ UNCHANGED <<fs, nextOid, nextFid, jobs, threads>>

\* JobFactory.job_grid(...) consumed to its end
JobGrid(grid, filter_duplicates) ==
    LET r == job_grid(Cur, Base.clf, Base.X, Base.Y, grid, filter_duplicates)
    IN  /\ Commit(r.st)
        /\ Called("job_grid", 0, grid, IF filter_duplicates THEN 1 ELSE 0,
                  [kind |-> "jobs", jobs |-> r.jobs], 0)
        /\ UNCHANGED <<jobs, threads>>

(* ------------------------------------------- calls that overlap in time *)
\* Each step below is one operation on the collection or on GridFS; what a
\* method computes between two of them (hashing, fit, pickling) is local and
\* is folded into the step before it.

\* the callers that have not started, and those that have returned
IdleThreads == {t \in Threads : threads[t].pc = "idle"}
Done(t) == threads[t].pc = "done"

\* Job.__init__ up to find_one: the Job is complete when it is a duplicate
JobFind(t, a) ==
    LET q == Entry(a)
        dup == find_one(collection, q) # 0
    IN  /\ threads[t].pc = "idle"
        /\ threads' = [threads EXCEPT ![t] =
              [Idle EXCEPT !.call = "job", !.op = "job",
                           !.pc = IF dup THEN "done" ELSE "insert",
                           !.job = [clf |-> a.clf, X |-> a.X, Y |-> a.Y,
                                    params |-> a.params, label |-> a.label,
                                    duplicated |-> dup, entry |-> q]]]
        /\ UNCHANGED <<collection, fs, nextOid, nextFid, jobs, call>>

\* Job.__init__: collection.insert(self._entry)
JobInsert(t) ==
    /\ threads[t].pc = "insert"
    /\ nextOid <= MaxOids
    /\ collection' = Append(collection, Document(threads[t].job.entry, nextOid))
    /\ nextOid' = nextOid + 1
    /\ threads' = [threads EXCEPT ![t].pc = "done", ![t].job.entry.id = nextOid]
    /\ UNCHANGED <<fs, nextFid, jobs, call>>

\* a caller enters run(), rerun(), the result getter or the result setter
\* through handle h; rerun() starts by assigning None to result
ThreadCall(t, name, h, value) ==
    /\ threads[t].pc = "idle"
    /\ threads' = [threads EXCEPT ![t] =
          [Idle EXCEPT !.call = name,
                       !.op = IF name = "rerun" THEN "result=" ELSE name,
                       !.pc = IF name \in {"run", "result"}
                              THEN "get_find" ELSE "del_find",
                       !.job = jobs[h],
                       !.val = IF name = "result=" THEN value ELSE NoneV]]
    /\ UNCHANGED <<collection, fs, nextOid, nextFid, jobs, call>>

\* the caller's record once the getter has produced r: the getter returns
\* it; run() returns it unless it is None, and otherwise fits and assigns
Got(th, r) ==
    IF th.op = "result" \/ r # NoneV
    THEN [th EXCEPT !.pc = "done", !.ret = r]
    ELSE [th EXCEPT !.pc = "del_find", !.op = "result=", !.nfit = th.nfit + 1,
                    !.val = fit(th.job)]

\* result getter: entry = self.collection.find_one(self._entry)
GetFind(t) ==
    LET th == threads[t]
        i == find_one(collection, th.job.entry)
    IN  /\ th.pc = "get_find"
        /\ threads' = [threads EXCEPT ![t] =
              IF i # 0 /\ collection[i].result # NoId
              THEN [th EXCEPT !.pc = "get_file", !.read = collection[i].result]
              ELSE Got(th, NoneV)]
        /\ UNCHANGED <<collection, fs, nextOid, nextFid, jobs, call>>

\* result getter: load(self._fs.get(entry['result']))
GetFile(t) ==
    LET th == threads[t]
    IN  /\ th.pc = "get_file"
        /\ threads' = [threads EXCEPT ![t] =
              IF th.read \in DOMAIN fs
              THEN Got(th, load(fs[th.read]))
              ELSE [th EXCEPT !.pc = "done", !.ret = Error("NoFile", "")]]
        /\ UNCHANGED <<collection, fs, nextOid, nextFid, jobs, call>>

\* result deleter: e = find_one(self._entry); old_id = e.get('result')
DelFind(t) ==
    LET th == threads[t]
        i == find_one(collection, th.job.entry)
    IN  /\ th.pc = "del_find"
        /\ threads' = [threads EXCEPT ![t] =
              IF i = 0
              THEN [th EXCEPT !.pc = "done", !.ret = Error("AttributeError", "get")]
              ELSE [th EXCEPT !.old = collection[i].result,
                              !.pc = IF collection[i].result # NoId
                                     THEN "fs_delete" ELSE "fs_put"]]
        /\ UNCHANGED <<collection, fs, nextOid, nextFid, jobs, call>>

\* result deleter: self._fs.delete(old_id)
FsDelete(t) ==
    /\ threads[t].pc = "fs_delete"
    /\ fs' = fs_delete(fs, threads[t].old)
    /\ threads' = [threads EXCEPT ![t].pc = "fs_put"]
    /\ UNCHANGED <<collection, nextOid, nextFid, jobs, call>>

\* the put step that hands out a file id and writes no file
FsPut_lost(t) ==
    /\ threads[t].pc = "fs_put"
    /\ nextFid <= MaxFiles
    /\ nextFid' = nextFid + 1
    /\ threads' = [threads EXCEPT ![t].pc = "update", ![t].rid = nextFid]
    /\ UNCHANGED <<collection, fs, nextOid, jobs, call>>

\* result setter: rid = self._fs.put(dumps(result))
FsPut(t) ==
    /\ threads[t].pc = "fs_put"
    /\ nextFid <= MaxFiles
    /\ fs' = fs_put(fs, nextFid, dumps(threads[t].val))
    /\ nextFid' = nextFid + 1
    /\ threads' = [threads EXCEPT ![t].pc = "update", ![t].rid = nextFid]
    /\ UNCHANGED <<collection, nextOid, jobs, call>>

\* result setter: collection.update(self._entry, {"$set": {"result": rid}},
\* upsert=True); rerun() goes on into run(), run() returns the classifier
Update(t) ==
    LET th == threads[t]
        st == update_result(Cur, th.job.entry, th.rid)
    IN  /\ th.pc = "update"
        /\ st.o <= MaxOids + 1
        /\ collection' = st.c
        /\ nextOid' = st.o
        /\ threads' = [threads EXCEPT ![t] =
              IF th.call = "rerun" /\ th.nfit = 0
              THEN [th EXCEPT !.pc = "get_find", !.op = "run"]
              ELSE [th EXCEPT !.pc = "done",
                              !.ret = IF th.call = "result=" THEN NoneV ELSE th.val]]
        /\ UNCHANGED <<fs, nextFid, jobs, call>>

\* one store operation of a call in progress
ThreadStep(t) ==
    \/ GetFind(t)
    \/ GetFile(t)
    \/ DelFind(t)
    \/ FsDelete(t)
    \/ FsPut(t)
    \/ Update(t)

Handles == 1..Len(jobs)

Next ==
    \/ \E a \in JobArgs : Len(jobs) < MaxJobs /\ NewJob(a)
    \/ \E h \in Handles, store \in Stores : Run(h, store)
    \/ \E h \in Handles : Rerun(h)
    \/ \E h \in Handles : GetResult(h)
    \/ \E h \in Handles, v \in Assigned : SetResult(h, v)
    \/ \E h \in Handles : DelResult(h)
    \/ \E h \in Handles, k \in Keys : GetItem(h, k)
    \/ \E h \in Handles, k \in Keys, v \in Vals : SetItem(h, k, v)
    \/ \E g \in Grids, f \in BOOLEAN : JobGrid(g, f)
    \/ ClearJobs

\* every operation of Job and JobFactory, called one at a time
Spec == Init /\ [][Next]_vars

\* Job construction alone
NextJobs == \E a \in JobArgs : Len(jobs) < MaxBatch /\ NewJob(a)
SpecJobs == Init /\ [][NextJobs]_vars

\* construction and run()
NextRun ==
    \/ \E a \in RunArgs : Len(jobs) < MaxJobs /\ NewJob(a)
    \/ \E h \in Handles, store \in Stores : Run(h, store)
SpecRun == Init /\ [][NextRun]_vars

\* construction, run(), rerun() and assignment to result
NextWrite ==
    \/ \E a \in RunArgs : Len(jobs) < MaxJobs /\ NewJob(a)
    \/ \E h \in Handles, store \in Stores : Run(h, store)
    \/ \E h \in Handles : Rerun(h)
    \/ \E h \in Handles, v \in Assigned : SetResult(h, v)
SpecWrite == Init /\ [][NextWrite]_vars

\* construction and the metadata accessors
NextMeta ==
    \/ \E a \in JobArgs : Len(jobs) < MaxJobs /\ NewJob(a)
    \/ \E h \in Handles, k \in Keys : GetItem(h, k)
    \/ \E h \in Handles, k \in Keys, v \in Vals : SetItem(h, k, v)
SpecMeta == Init /\ [][NextMeta]_vars

\* run() on live entries, on entries whose result was cleared, and on
\* handles whose entry was dropped
NextLife ==
    \/ \E a \in RunArgs : Len(jobs) < MaxJobs /\ NewJob(a)
    \/ \E h \in Handles, store \in Stores : Run(h, store)
    \/ \E h \in Handles : DelResult(h)
    \/ ClearJobs
SpecLife == Init /\ [][NextLife]_vars

\* construction, run() and clear_jobs()
NextClear ==
    \/ \E a \in RunArgs : Len(jobs) < MaxJobs /\ NewJob(a)
    \/ \E h \in Handles : Run(h, "classifier")
    \/ ClearJobs
SpecClear == Init /\ [][NextClear]_vars

\* the same with rerun()
NextRerun ==
    \/ \E a \in RunArgs : Len(jobs) < MaxJobs /\ NewJob(a)
    \/ \E h \in Handles, store \in Stores : Run(h, store)
    \/ \E h \in Handles : Rerun(h)
    \/ \E h \in Handles : DelResult(h)
    \/ ClearJobs
SpecRerun == Init /\ [][NextRerun]_vars

\* construction of single Jobs and of grids of Jobs
NextGrid ==
    \/ \E a \in JobArgs : Len(jobs) < MaxJobs /\ NewJob(a)
    \/ \E g \in Grids, f \in BOOLEAN : JobGrid(g, f)
SpecGrid == Init /\ [][NextGrid]_vars

\* every method on live handles and on handles whose entry was dropped
NextEntries ==
    \/ \E a \in RunArgs : Len(jobs) < MaxJobs /\ NewJob(a)
    \/ \E h \in Handles : Run(h, "classifier")
    \/ \E h \in Handles : Rerun(h)
    \/ \E h \in Handles : GetResult(h)
    \/ \E h \in Handles : SetResult(h, IntV(5))
    \/ \E h \in Handles : DelResult(h)
    \/ \E h \in Handles, k \in Keys : GetItem(h, k)
    \/ \E h \in Handles, k \in Keys : SetItem(h, k, 123)
    \/ ClearJobs
SpecEntries == Init /\ [][NextEntries]_vars

\* Jobs constructed one at a time, then two constructions that overlap
NextJobRace ==
    \/ \E a \in JobArgs :
          IdleThreads = Threads /\ Len(jobs) < MaxJobs /\ NewJob(a)
    \/ \E t \in Threads, a \in JobArgs : JobFind(t, a)
    \/ \E t \in Threads : JobInsert(t)
SpecJobRace == Init /\ [][NextJobRace]_vars

\* two run() calls that overlap
NextRunRace ==
    \/ \E a \in RunArgs :
          IdleThreads = Threads /\ Len(jobs) < MaxJobs /\ NewJob(a)
    \/ \E t \in Threads, h \in Handles : ThreadCall(t, "run", h, NoneV)
    \/ \E t \in Threads : ThreadStep(t)
SpecRunRace == Init /\ [][NextRunRace]_vars

\* two calls among run(), rerun(), reading result and assigning result that
\* overlap
NextResultRace ==
    \/ \E a \in RunArgs :
          IdleThreads = Threads /\ Len(jobs) < MaxJobs /\ NewJob(a)
    \/ \E t \in Threads, h \in Handles :
          \E name \in {"run", "rerun", "result", "result="} :
              ThreadCall(t, name, h, IntV(5))
    \/ \E t \in Threads : ThreadStep(t)
SpecResultRace == Init /\ [][NextResultRace]_vars

(* ------------------------------------------------------------ claims   *)
\* the arguments a handle was constructed with
ArgsOf(job) == Args(job.clf, job.X, job.Y, job.params, job.label)

\* document d carries exactly the fingerprint of arguments a: the four
\* identity fields, and the label or no label at all
Exact(d, a) ==
    /\ d.x_hash = md5(a.X)
    /\ d.y_hash = md5(a.Y)
    /\ d.clf = dumps(a.clf)
    /\ d.params = a.params
    /\ d.label = (IF a.label # PyNone THEN a.label ELSE Absent)

ExactEntries(a) == {i \in 1..Len(collection) : Exact(collection[i], a)}

\* handle j is the first one constructed from its arguments
FirstOfItsInputs(j) ==
    \A i \in 1..(j - 1) : ArgsOf(jobs[i]) # ArgsOf(jobs[j])

\* C1: when two Jobs are constructed one after the other from identical
\* (callable, data, labels, parameters, label), none with these inputs having
\* been constructed before, the first reports duplicate = false (and keeps
\* it), the second reports duplicate = true, and exactly one stored entry
\* carries that fingerprint.
C1_TwoIdenticalJobs ==
    \A j \in Handles : \A k \in Handles :
        (j < k /\ ArgsOf(jobs[j]) = ArgsOf(jobs[k]) /\ FirstOfItsInputs(j))
        => /\ ~jobs[j].duplicated
           /\ jobs[k].duplicated
           /\ Cardinality(ExactEntries(ArgsOf(jobs[j]))) = 1

\* the documents that agree with arguments a on the two hashes, the
\* callable and the parameters
Siblings(c, a) ==
    {i \in 1..Len(c) :
        /\ c[i].x_hash = md5(a.X) /\ c[i].y_hash = md5(a.Y)
        /\ c[i].clf = dumps(a.clf) /\ c[i].params = a.params}

\* C5: a Job constructed without a label matches only an entry without a
\* label: when every stored entry with its hashes, callable and parameters
\* carries a label, the Job reports duplicate = false and a new entry without
\* a label is inserted; and Jobs that differ only in their labels have
\* distinct entries.
C5_LabelIsIdentity ==
    /\ \A k \in Handles :
          (/\ call.op = "job" /\ call.job = k /\ k = Len(jobs)
           /\ jobs[k].label = PyNone
           /\ \A i \in Siblings(collection, ArgsOf(jobs[k])) :
                 collection[i].label # Absent \/ collection[i].id = jobs[k].entry.id)
          => /\ ~jobs[k].duplicated
             /\ collection[Len(collection)].id = jobs[k].entry.id
             /\ collection[Len(collection)].label = Absent
    /\ \A j \in Handles : \A k \in Handles :
          (/\ jobs[j].label # jobs[k].label
           /\ jobs[j].label # PyNone /\ jobs[k].label # PyNone)
          => find_one(collection, jobs[j].entry) # find_one(collection, jobs[k].entry)

\* the stored value a handle reads back, when the read succeeds and is not None
HasResult(st, job) ==
    /\ ~IsError(result_get(st, job))
    /\ result_get(st, job) # NoneV

\* the ids the result fields of the stored entries refer to
Referenced(c) == {c[i].result : i \in {j \in 1..Len(c) : c[j].result # NoId}}

\* C2: once a run() with the default keyword has completed on a Job, every
\* Job with the same inputs reads a stored result; a stored result stays as
\* it is under later constructions and runs; every later run() with an
\* accepted keyword on such a Job returns it without calling fit; and a Job
\* constructed as a duplicate of such a Job reads the same result.
C2_RunMemoized ==
    /\ [](\A h \in Handles :
            (/\ call.op = "run" /\ Keyword(call.arg) = "classifier"
             /\ ~IsError(call.ret) /\ call.nfit <= 1
             /\ ArgsOf(jobs[h]) = ArgsOf(jobs[call.job]))
            => HasResult(Cur, jobs[h]))
    /\ [][\A h \in Handles :
            HasResult(Cur, jobs[h])
            => /\ result_get(Store(collection', fs', nextFid', nextOid'), jobs'[h])
                    = result_get(Cur, jobs[h])
               /\ (call'.op = "run" /\ call'.job = h /\ Keyword(call'.arg) \in Accepted)
                    => (call'.nfit = 0 /\ call'.ret = result_get(Cur, jobs[h]))
               /\ (call'.op = "job" /\ ArgsOf(jobs'[Len(jobs')]) = ArgsOf(jobs[h]))
                    => /\ jobs'[Len(jobs')].duplicated
                       /\ result_get(Store(collection', fs', nextFid', nextOid'),
                                      jobs'[Len(jobs')]) = result_get(Cur, jobs[h])
          ]_vars

\* a duplicate handle's run() returned the classifier another handle stored
C2_Witness ==
    /\ call.op = "run" /\ call.nfit = 0
    /\ jobs[call.job].duplicated
    /\ call.ret = fit(jobs[call.job])
    /\ \E h \in Handles : h # call.job /\ ArgsOf(jobs[h]) = ArgsOf(jobs[call.job])

\* C3: rerun() on any Job calls fit exactly once; afterwards the entry's
\* result refers to a file holding the newly fitted classifier, the file the
\* entry referred to before is gone, and no file written by the rerun is left
\* unreferenced.
C3_RerunReplaces ==
    [][call'.op = "rerun"
        => LET job == jobs[call'.job]
               old == find_one(collection, job.entry)
               new == find_one(collection', job.entry)
           IN  /\ call'.nfit = 1
               /\ call'.ret = fit(job)
               /\ new # 0
               /\ collection'[new].result \in DOMAIN fs'
               /\ load(fs'[collection'[new].result]) = fit(job)
               /\ old # 0 => collection[old].result \notin DOMAIN fs'
               /\ (DOMAIN fs' \ DOMAIN fs) \subseteq Referenced(collection')
      ]_vars

\* C4: under construction, run(), rerun() and assignment to result, GridFS
\* holds exactly the files the result fields of the stored entries refer to.
C4_NoLeakedFile == DOMAIN fs = Referenced(collection)

\* an assignment to result replaced an earlier stored result
C4_Witness ==
    /\ call.op = "result=" /\ ~IsError(call.ret)
    /\ nextFid = 3
    /\ DOMAIN fs = {2}

\* C6: a new Job that differs from an existing Job in exactly one of data,
\* labels, parameters and callable, no Job with the new inputs having been
\* constructed before, reports duplicate = false, inserts a new entry, and
\* reads no result.
C6_OneInputChanged ==
    [][call'.op = "job"
        => LET new == jobs'[Len(jobs')]
           IN  (/\ \E j \in Handles :
                      /\ Differ(ArgsOf(jobs[j]), ArgsOf(new)) = 1
                      /\ jobs[j].label = new.label
                /\ \A j \in Handles : ArgsOf(jobs[j]) # ArgsOf(new))
               => /\ ~new.duplicated
                  /\ Len(collection') = Len(collection) + 1
                  /\ Exact(collection'[Len(collection')], ArgsOf(new))
                  /\ result_get(Store(collection', fs', nextFid', nextOid'), new)
                        = NoneV
      ]_vars

\* C7: run() with the keyword 'none' on a Job that reads no result calls fit,
\* returns the fitted classifier and leaves the collection and GridFS as they
\* were; and every run() with an accepted keyword on a Job that reads no
\* result calls fit.
C7_StoreNothing ==
    [][(/\ call'.op = "run"
        /\ Keyword(call'.arg) \in Accepted
        /\ result_get(Cur, jobs[call'.job]) = NoneV)
        => /\ call'.nfit = 1
           /\ Keyword(call'.arg) = "none"
                => /\ call'.ret = fit(jobs[call'.job])
                   /\ UNCHANGED <<collection, fs, nextFid, nextOid>>
      ]_vars

\* a run() under the keyword None that fitted and stored nothing
C7_Witness ==
    /\ call.op = "run" /\ call.arg = PyNone /\ call.nfit = 1
    /\ call.ret = fit(jobs[call.job])
    /\ find_one(collection, jobs[call.job].entry) # 0
    /\ result_get(Cur, jobs[call.job]) = NoneV
    /\ fs = <<>>

\* C8: run() with the keyword 'score' (or 'prediction') on a Job that reads
\* no result returns the fitted classifier and stores the score (or the
\* prediction); the result then reads as that value, and a later run() with
\* any accepted keyword returns it, calls fit no more and changes nothing.
C8_ReducedStore ==
    [][(/\ call'.op = "run"
        /\ Keyword(call'.arg) \in {"score", "prediction"}
        /\ result_get(Cur, jobs[call'.job]) = NoneV)
        => LET job == jobs[call'.job]
               after == Store(collection', fs', nextFid', nextOid')
               kept == Stored(fit(job), job, Keyword(call'.arg))
           IN  /\ call'.ret = fit(job)
               /\ call'.nfit = 1
               /\ result_get(after, job) = kept
               /\ \A store \in Stores :
                     Keyword(store) \in Accepted
                     => run(after, job, store) = [st |-> after, ret |-> kept, nfit |-> 0]
      ]_vars

\* C9: run() with a keyword that is none of the accepted ones raises the
\* TypeError in every state, calls fit not at all and leaves the collection
\* and GridFS as they were.
C9_BadKeyword ==
    [][(call'.op = "run" /\ Keyword(call'.arg) \notin Accepted)
        => /\ call'.ret = Error("TypeError", "store")
           /\ call'.nfit = 0
           /\ UNCHANGED <<collection, fs, nextFid, nextOid>>
      ]_vars

\* a rejected run() on a Job whose result is stored
C9_Witness ==
    /\ call.op = "run" /\ call.arg = "full-result"
    /\ call.ret = Error("TypeError", "store")
    /\ HasResult(Cur, jobs[call.job])

\* C10: job[key] through any handle returns the value last set under key
\* through a handle with the same inputs and is changed by nothing else; it
\* raises the KeyError naming the key when the entry holds no value under
\* key; and a read changes nothing in the store.
C10_Metadata ==
    [][\A h \in Handles : \A k \in Keys :
        LET before == getitem(Cur, jobs[h], k)
            after == getitem(Store(collection', fs', nextFid', nextOid'), jobs[h], k)
            set == /\ call'.op = "setitem" /\ call'.arg = k
                   /\ ArgsOf(jobs[call'.job]) = ArgsOf(jobs[h])
            i == find_one(collection, jobs[h].entry)
        IN  /\ set => after = IntV(call'.val)
            /\ ~set => after = before
            /\ (i # 0 /\ collection[i].extra[k] = Missing)
                 => before = Error("KeyError", k)
            /\ (call'.op = "getitem" /\ call'.job = h /\ call'.arg = k)
                 => /\ call'.ret = before
                    /\ UNCHANGED <<collection, fs, nextFid, nextOid>>
      ]_vars

\* the documents of collection c that carry exactly the fingerprint of a
ExactIn(c, a) == {i \in 1..Len(c) : Exact(c[i], a)}

\* the argument record of the grid point p
GridArgs(p) == Args(Base.clf, Base.X, Base.Y, p, PyNone)

\* C11: a job_grid pass with filter_duplicates consumed to its end yields
\* exactly one Job for each distinct grid point whose fingerprint had no
\* entry before and none for the others, and leaves an entry with the
\* fingerprint of every grid point; a pass over the same grid right after
\* yields no Job with filter_duplicates and one Job per grid point without,
\* and neither adds an entry.
C11_GridPass ==
    [][(call'.op = "job_grid" /\ call'.val = 1)
        => LET grid == call'.arg
               yielded == call'.ret.jobs
               after == Store(collection', fs', nextFid', nextOid')
               again == job_grid(after, Base.clf, Base.X, Base.Y, grid, TRUE)
               plain == job_grid(after, Base.clf, Base.X, Base.Y, grid, FALSE)
           IN  /\ \A p \in Params :
                     Cardinality({i \in 1..Len(yielded) : yielded[i].params = p})
                       = IF /\ \E n \in 1..Len(grid) : grid[n] = p
                            /\ ExactIn(collection, GridArgs(p)) = {}
                         THEN 1 ELSE 0
               /\ \A n \in 1..Len(grid) : ExactIn(collection', GridArgs(grid[n])) # {}
               /\ again.jobs = <<>>
               /\ again.st.c = collection'
               /\ Len(plain.jobs) = Len(grid)
               /\ \A n \in 1..Len(grid) : plain.jobs[n].params = grid[n]
               /\ plain.st.c = collection'
      ]_vars

\* C12: clear_jobs() leaves the collection empty whatever it held; the Job
\* constructed next, from the inputs of a Job constructed (and possibly run)
\* before, reports duplicate = false, is inserted under an ObjectId no entry
\* had before as the only entry, and reads no result.
C12_ClearThenFresh ==
    /\ [][call'.op = "clear_jobs" => collection' = <<>>]_vars
    /\ [][(/\ call.op = "clear_jobs" /\ call'.op = "job"
            /\ \E h \in Handles : ArgsOf(jobs[h]) = ArgsOf(jobs'[Len(jobs')]))
            => LET new == jobs'[Len(jobs')]
               IN  /\ ~new.duplicated
                   /\ Len(collection') = 1
                   /\ Exact(collection'[1], ArgsOf(new))
                   /\ collection'[1].id = new.entry.id
                   /\ new.entry.id = nextOid
                   /\ \A h \in Handles : jobs[h].entry.id # new.entry.id
                   /\ collection'[1].result = NoId
                   /\ result_get(Store(collection', fs', nextFid', nextOid'), new)
                         = NoneV
          ]_vars

\* a Job constructed anew after its earlier entry, which held a result, was
\* dropped
C12_Witness ==
    /\ call.op = "job" /\ Len(jobs) = 2
    /\ ArgsOf(jobs[1]) = ArgsOf(jobs[2])
    /\ ~jobs[1].duplicated /\ ~jobs[2].duplicated
    /\ Len(collection) = 1 /\ collection[1].id = 2
    /\ DOMAIN fs # {}

\* C13: after del job.result on a Job whose entry has a stored result, with
\* no assignment following, the result reads None through every handle of
\* that entry, and the next run() raises nothing, calls fit, returns the
\* fitted classifier and stores it as the new result.
C13_ClearForcesRecompute ==
    [][(/\ call'.op = "del result"
        /\ HasResult(Cur, jobs[call'.job]))
        => LET job == jobs[call'.job]
               after == Store(collection', fs', nextFid', nextOid')
               next == run(after, job, "classifier")
           IN  /\ ~IsError(call'.ret)
               /\ \A h \in Handles :
                     find_one(collection, jobs[h].entry) = find_one(collection, job.entry)
                     => result_get(after, jobs[h]) = NoneV
               /\ ~IsError(next.ret)
               /\ next.nfit = 1
               /\ next.ret = fit(job)
               /\ result_get(next.st, job) = fit(job)
      ]_vars

\* the ObjectIds of the stored entries, in natural order
Ids(c) == [i \in 1..Len(c) |-> c[i].id]

\* C14: run(), rerun(), reading, assigning and deleting result, job[key] and
\* job[key] = value neither add nor remove an entry, on any handle, a handle
\* whose entry clear_jobs() dropped included.
C14_OnlyJobAndClear ==
    [][call'.op \in {"run", "rerun", "result", "result=", "del result",
                     "getitem", "setitem"}
        => Ids(collection') = Ids(collection)
      ]_vars

\* C15: when two constructions from identical inputs overlap, find_one and
\* insert each being atomic, and no entry with their fingerprint was stored
\* before them, then however their steps interleave at least one of the two
\* Jobs reports duplicate = false and at least one entry with the
\* fingerprint is stored once both have returned.  (The interleaving that
\* leaves two such entries and two Jobs reporting false is C15_BothInsert.)
C15_ConstructionRace ==
    \A t1 \in Threads : \A t2 \in Threads \ {t1} :
        LET j1 == threads[t1].job
            j2 == threads[t2].job
        IN  (/\ Done(t1) /\ Done(t2)
             /\ threads[t1].call = "job" /\ threads[t2].call = "job"
             /\ ArgsOf(j1) = ArgsOf(j2)
             /\ \A i \in ExactEntries(ArgsOf(j1)) :
                   collection[i].id \in {j1.entry.id, j2.entry.id})
            => /\ ~j1.duplicated \/ ~j2.duplicated
               /\ ExactEntries(ArgsOf(j1)) # {}

\* both constructions found nothing and both inserted
C15_BothInsert ==
    \E t1 \in Threads : \E t2 \in Threads \ {t1} :
        /\ Done(t1) /\ Done(t2)
        /\ threads[t1].call = "job" /\ threads[t2].call = "job"
        /\ ArgsOf(threads[t1].job) = ArgsOf(threads[t2].job)
        /\ ~threads[t1].job.duplicated /\ ~threads[t2].job.duplicated
        /\ Cardinality(ExactEntries(ArgsOf(threads[t1].job))) = 2

\* the files no entry refers to
Orphans == DOMAIN fs \ Referenced(collection)

\* C16: for two run() calls with the default keyword that overlap on Jobs of
\* one entry that had no result: every result update makes the entry refer
\* to the file its caller has just put; and however the steps interleave,
\* once both calls have returned the entry's result refers to a file that
\* exists and holds what the caller of that update pickled, and at most one
\* file, put by the other caller, is left that no entry refers to.
C16_RunRace ==
    /\ [](\A t1 \in Threads : \A t2 \in Threads \ {t1} :
            LET i == find_one(collection, threads[t1].job.entry)
            IN  (/\ Done(t1) /\ Done(t2)
                 /\ threads[t1].call = "run" /\ threads[t2].call = "run"
                 /\ i # 0
                 /\ i = find_one(collection, threads[t2].job.entry))
                => /\ ~IsError(threads[t1].ret) /\ ~IsError(threads[t2].ret)
                   /\ collection[i].result \in DOMAIN fs
                   /\ \E t \in {t1, t2} :
                         /\ threads[t].rid = collection[i].result
                         /\ fs[collection[i].result] = dumps(threads[t].val)
                         /\ threads[t].val = fit(threads[t].job)
                   /\ Cardinality(Orphans) <= 1
                   /\ Orphans \subseteq {threads[t1].rid, threads[t2].rid})
    /\ [][\A t \in Threads :
            (threads[t].pc = "update" /\ threads'[t].pc # "update")
            => LET i == find_one(collection', threads[t].job.entry)
               IN  i # 0 /\ collection'[i].result = threads[t].rid
          ]_vars

\* both calls fitted and stored; the file of the first update is left behind
C16_Witness ==
    \E t1 \in Threads : \E t2 \in Threads \ {t1} :
        /\ Done(t1) /\ Done(t2)
        /\ threads[t1].call = "run" /\ threads[t2].call = "run"
        /\ threads[t1].nfit = 1 /\ threads[t2].nfit = 1
        /\ find_one(collection, threads[t1].job.entry)
              = find_one(collection, threads[t2].job.entry)
        /\ Orphans = {threads[t1].rid}
        /\ Referenced(collection) = {threads[t2].rid}

\* C17: in every reachable state, the states between the store operations
\* of an overlapping assignment to result or rerun() included, every entry
\* that carries a result id refers to a file GridFS holds, and no read of
\* result and no run() fails on a missing file.
C17_NoDangling ==
    /\ \A i \in 1..Len(collection) :
          collection[i].result # NoId => collection[i].result \in DOMAIN fs
    /\ \A t \in Threads :
          threads[t].call \in {"result", "run"}
          => threads[t].ret # Error("NoFile", "")

\* C18: on a handle whose entry is no longer stored, result reads None,
\* del result raises nothing and changes nothing, and run() with an accepted
\* keyword calls fit and returns the fitted classifier.
C18_StaleHandle ==
    [][\A h \in Handles :
        find_one(collection, jobs[h].entry) = 0
        => /\ result_get(Cur, jobs[h]) = NoneV
           /\ (call'.op = "del result" /\ call'.job = h)
                => /\ ~IsError(call'.ret)
                   /\ UNCHANGED <<collection, fs, nextFid, nextOid>>
           /\ (call'.op = "run" /\ call'.job = h /\ Keyword(call'.arg) \in Accepted)
                => /\ call'.nfit = 1
                   /\ call'.ret = fit(jobs[h])
      ]_vars

\* C19: run(), rerun(), assigning result and del result through a handle
\* leave every entry whose fingerprint is not exactly the handle's (an entry
\* that differs only in carrying a label the handle lacks included) with the
\* result id it had and, when GridFS held that file, with the same file.
C19_OwnFingerprintOnly ==
    [][call'.op \in {"run", "rerun", "result=", "del result"}
        => \A i \in 1..Len(collection) :
              ~Exact(collection[i], ArgsOf(jobs[call'.job]))
              => /\ i <= Len(collection')
                 /\ collection'[i].id = collection[i].id
                 /\ collection'[i].result = collection[i].result
                 /\ collection[i].result \in DOMAIN fs
                      => /\ collection[i].result \in DOMAIN fs'
                         /\ fs'[collection[i].result] = fs[collection[i].result]
      ]_vars

\* C20: clear_jobs() leaves GridFS as it was: every file an entry's result
\* referred to before the call is still there with the same content, and no
\* entry refers to it afterwards.
C20_ClearKeepsFiles ==
    [][call'.op = "clear_jobs"
        => /\ fs' = fs
           /\ \A id \in Referenced(collection) \cap DOMAIN fs :
                 /\ id \in DOMAIN fs'
                 /\ fs'[id] = fs[id]
                 /\ id \notin Referenced(collection')
      ]_vars

\* the one entry ever stored had a result and was dropped; its file remains
C20_Witness ==
    /\ call.op = "clear_jobs"
    /\ collection = <<>>
    /\ nextOid = 2 /\ nextFid = 2
    /\ DOMAIN fs = {1}
    /\ load(fs[1]) = fit(jobs[1])

====
